---- MODULE Spec2Model ----
(***************************************************************************)
(* weather.py: a command-line program that reads a city name, loads an API *)
(* key from secrets.ini, builds an OpenWeather URL, issues one GET, parses *)
(* the JSON answer and prints one styled line.                             *)
(*                                                                         *)
(* Text (the city, the URL, what is printed on standard output) is a       *)
(* sequence of Unicode code points.  A line of standard error is a         *)
(* sequence of string tokens.  An optional value (None or a value) is a    *)
(* sequence of length 0 or 1.                                              *)
(***************************************************************************)
EXTENDS Integers, Sequences, FiniteSets, TLC

VARIABLES
    pc,               \* the statement the script is about to execute
    argv,             \* the command-line tokens after the program name
    config,           \* what secrets.ini holds in the working directory
    user_args,        \* user_args.city (weather.py:182)
    api_key,          \* api_key (weather.py:55)
    query_url,        \* query_url (weather.py:183)
    response,         \* what request.urlopen answered (weather.py:89)
    weather_data,     \* weather_data (weather.py:184)
    city,             \* weather.py:114
    weather_id,       \* weather.py:115
    weather_description, \* weather.py:116
    temperature,      \* weather.py:117
    display_params,   \* weather.py:122
    term_style,       \* the terminal's current style, set by style.change_color
    terminal,         \* what reached the terminal through standard output, in order:
                      \* text printed and style changes
    stderr,           \* the lines written to standard error
    exit_code,        \* <<>> while running, <<n>> once the process has ended
    requests,         \* the number of calls of request.urlopen
    trace             \* the stages entered so far, in order

vars == <<pc, argv, config, user_args, api_key, query_url, response,
          weather_data, city, weather_id, weather_description, temperature,
          display_params, term_style, terminal, stderr, exit_code, requests,
          trace>>

---------------------------------------------------------------------------
(* Bounds of the model *)

\* weather codes range over -NegCodes .. MaxCode
MaxCode == 1000
NegCodes == 3
\* the command lines of SpecQuery: one or two tokens of 0..MaxTokLen characters
MaxTokLen == 1
\* the other city names a built URL is compared with: 0..MaxOtherLen characters
MaxOtherLen == 3

---------------------------------------------------------------------------
(* Text *)

\* "http://api.openweathermap.org/data/2.5/weather"
BASE_WEATHER_API_URL == <<104, 116, 116, 112, 58, 47, 47, 97, 112, 105, 46, 111, 112, 101, 110, 119, 101, 97, 116, 104, 101, 114, 109, 97, 112, 46, 111, 114, 103, 47, 100, 97, 116, 97, 47, 50, 46, 53, 47, 119, 101, 97, 116, 104, 101, 114>>
\* "?q="
QueryPrefix == <<63, 113, 61>>
\* "&units="
UnitsParam == <<38, 117, 110, 105, 116, 115, 61>>
\* "metric"
metric == <<109, 101, 116, 114, 105, 99>>
\* "&appid="
AppidParam == <<38, 97, 112, 112, 105, 100, 61>>
\* "-h"
HelpFlag == <<45, 104>>
\* "--help"
LongHelpFlag == <<45, 45, 104, 101, 108, 112>>
\* "Paris"
Paris == <<80, 97, 114, 105, 115>>
\* "New"
New == <<78, 101, 119>>
\* "York"
York == <<89, 111, 114, 107>>
\* "New York"
NewYork == <<78, 101, 119, 32, 89, 111, 114, 107>>
\* "clear sky"
clear_sky == <<99, 108, 101, 97, 114, 32, 115, 107, 121>>
\* "Clear sky"
Clear_sky == <<67, 108, 101, 97, 114, 32, 115, 107, 121>>
\* "Clear Sky"
Clear_Sky == <<67, 108, 101, 97, 114, 32, 83, 107, 121>>
\* "FEW clouds"
FEW_clouds == <<70, 69, 87, 32, 99, 108, 111, 117, 100, 115>>
\* "18.5"
T18_5 == <<49, 56, 46, 53>>
\* "usage: weather.py [-h] city [city ...]", the first line of the help
HelpText == <<117, 115, 97, 103, 101, 58, 32, 119, 101, 97, 116, 104, 101, 114, 46, 112, 121, 32, 91, 45, 104, 93, 32, 99, 105, 116, 121, 32, 91, 99, 105, 116, 121, 32, 46, 46, 46, 93>>
\* "k3y", the api_key of a well-formed secrets.ini
SampleKey == <<107, 51, 121>>

\* the concatenation of a sequence of texts
RECURSIVE Concat(_)
Concat(ss) == IF ss = <<>> THEN <<>> ELSE Head(ss) \o Concat(Tail(ss))

\* needle occurs in hay as a contiguous run
Contains(hay, needle) ==
    \E i \in 1 .. (Len(hay) - Len(needle) + 1) :
        SubSeq(hay, i, i + Len(needle) - 1) = needle

\* all sequences over S of length 0..n
RECURSIVE SeqsUpTo(_, _)
SeqsUpTo(S, n) ==
    IF n = 0 THEN {<<>>}
    ELSE LET shorter == SeqsUpTo(S, n - 1)
         IN  shorter \cup {Append(s, x) : s \in shorter, x \in S}

\* str(n) of a natural number: its decimal digits
RECURSIVE Decimal(_)
Decimal(n) == IF n < 10 THEN <<48 + n>> ELSE Append(Decimal(n \div 10), 48 + (n % 10))

---------------------------------------------------------------------------
(* build_weather_query *)

\* " ".join(city_input)
RECURSIVE JoinSpace(_)
JoinSpace(tokens) ==
    IF tokens = <<>> THEN <<>>
    ELSE IF Len(tokens) = 1 THEN tokens[1]
    ELSE tokens[1] \o <<32>> \o JoinSpace(Tail(tokens))

\* the characters quote never escapes: letters, digits and _ . - ~
AlwaysSafe == (65 .. 90) \cup (97 .. 122) \cup (48 .. 57) \cup {95, 46, 45, 126}

\* str.encode("utf-8") of one code point (surrogates, which it rejects, are
\* not drawn)
Utf8(cp) ==
    IF cp < 128 THEN <<cp>>
    ELSE IF cp < 2048 THEN <<192 + (cp \div 64), 128 + (cp % 64)>>
    ELSE IF cp < 65536 THEN
        <<224 + (cp \div 4096), 128 + ((cp \div 64) % 64), 128 + (cp % 64)>>
    ELSE <<240 + (cp \div 262144), 128 + ((cp \div 4096) % 64),
           128 + ((cp \div 64) % 64), 128 + (cp % 64)>>

\* one upper-case hexadecimal digit
HexDigit(d) == IF d < 10 THEN 48 + d ELSE 55 + d

\* "%XX" of one byte
PercentByte(b) == <<37, HexDigit(b \div 16), HexDigit(b % 16)>>

RECURSIVE PercentBytes(_)
PercentBytes(bs) ==
    IF bs = <<>> THEN <<>> ELSE PercentByte(Head(bs)) \o PercentBytes(Tail(bs))

\* quote_plus leaves the plus sign unescaped: "a b" and "a+b" then collide
QuoteCharPlusSafe(cp) ==
    IF cp = 32 THEN <<43>>
    ELSE IF cp \in AlwaysSafe \cup {43} THEN <<cp>>
    ELSE PercentBytes(Utf8(cp))

\* parse.quote_plus on one character: a space becomes "+", a safe character
\* stays, every other character becomes the %XX of its UTF-8 bytes
QuoteChar(cp) ==
    IF cp = 32 THEN <<43>>
    ELSE IF cp \in AlwaysSafe THEN <<cp>>
    ELSE PercentBytes(Utf8(cp))

\* parse.quote_plus(city_name)
RECURSIVE QuotePlus(_)
QuotePlus(s) == IF s = <<>> THEN <<>> ELSE QuoteChar(Head(s)) \o QuotePlus(Tail(s))

\* the URL of build_weather_query from the joined city name and the key
BuildUrl(city_name, key) ==
    BASE_WEATHER_API_URL \o QueryPrefix \o QuotePlus(city_name)
        \o UnitsParam \o metric \o AppidParam \o key

---------------------------------------------------------------------------
(* Decoding a built URL: what a server does with the q parameter *)

\* the value of a hexadecimal digit
HexValue(c) == IF c <= 57 THEN c - 48 ELSE c - 55

\* the bytes a percent-encoded ASCII text stands for: "+" is a space, %XX is
\* the byte XX, any other character is itself (parse.unquote_plus, first half)
RECURSIVE UnquoteBytes(_)
UnquoteBytes(s) ==
    IF s = <<>> THEN <<>>
    ELSE IF Head(s) = 43 THEN <<32>> \o UnquoteBytes(Tail(s))
    ELSE IF Head(s) = 37 /\ Len(s) >= 3 THEN
        <<16 * HexValue(s[2]) + HexValue(s[3])>> \o UnquoteBytes(SubSeq(s, 4, Len(s)))
    ELSE <<Head(s)>> \o UnquoteBytes(Tail(s))

\* bytes.decode("utf-8", "replace"): an ill-formed byte gives U+FFFD
RECURSIVE Utf8Decode(_)
Utf8Decode(bs) ==
    IF bs = <<>> THEN <<>>
    ELSE LET b == Head(bs)
             n == IF b < 128 THEN 1
                  ELSE IF b >= 192 /\ b < 224 THEN 2
                  ELSE IF b >= 224 /\ b < 240 THEN 3
                  ELSE IF b >= 240 /\ b < 248 THEN 4
                  ELSE 0
             cont(i) == bs[i] - 128
             wellFormed == /\ n >= 1
                           /\ Len(bs) >= n
                           /\ \A i \in 2 .. n : bs[i] >= 128 /\ bs[i] < 192
         IN  IF ~wellFormed THEN <<65533>> \o Utf8Decode(Tail(bs))
             ELSE LET cp == IF n = 1 THEN b
                            ELSE IF n = 2 THEN (b - 192) * 64 + cont(2)
                            ELSE IF n = 3 THEN
                                (b - 224) * 4096 + cont(2) * 64 + cont(3)
                            ELSE (b - 240) * 262144 + cont(2) * 4096
                                     + cont(3) * 64 + cont(4)
                  IN  <<cp>> \o Utf8Decode(SubSeq(bs, n + 1, Len(bs)))

\* parse.unquote_plus
UnquotePlus(s) == Utf8Decode(UnquoteBytes(s))

\* the still encoded value of the first query parameter of a URL, which
\* build_weather_query makes the q parameter: the text between "?q=" and the
\* next "&"
QParam(url) ==
    LET start == CHOOSE i \in 1 .. Len(url) :
                     /\ url[i] = 63
                     /\ \A j \in 1 .. (i - 1) : url[j] # 63
        from  == start + Len(QueryPrefix)
        stop  == CHOOSE i \in from .. Len(url) :
                     /\ url[i] = 38
                     /\ \A j \in from .. (i - 1) : url[j] # 38
    IN  SubSeq(url, from, stop - 1)

---------------------------------------------------------------------------
(* Weather condition codes and _select_weather_display_params *)

\* range(200, 301): the upper end taken as inclusive
THUNDERSTORM_inclusive == 200 .. 300
THUNDERSTORM == 200 .. 299
DRIZZLE == 300 .. 399
RAIN == 500 .. 599
SNOW == 600 .. 699
MIST == {701}
SMOKE == {711}
HAZE == {721}
DUSTWHRIL == {731}
FOG == {741}
SAND == {751}
DUST == {761}
ASH == {762}
SQUALL == {771}
TORNADO == {781}
\* range(800, 802): the upper end taken as inclusive
CLEAR_inclusive == 800 .. 801
CLEAR == 800 .. 800
CLOUDY == 801 .. 899

\* the symbols, as the source file holds them
SymbolThunderstorm == <<226, 8250, 710, 239, 184>>
SymbolDrizzle == <<287, 376, 338, 167, 239, 184>>
SymbolRain == <<226, 732, 8221>>
SymbolSnow == <<226, 8222, 239, 184>>
SymbolMist == <<287, 376, 338, 171, 239, 184>>
SymbolSmoke == <<287, 376, 8217, 168>>
SymbolHaze == <<287, 376, 732, 182, 226, 8364, 287, 376, 338, 171, 239, 184>>
SymbolDustWhirl == <<287, 376, 338, 170, 239, 184>>
SymbolFog == <<287, 376, 732, 182, 226, 8364, 287, 376, 338, 171, 239, 184>>
SymbolSand == <<287, 376, 339, 239, 184>>
SymbolDust == <<287, 376, 8217, 168>>
SymbolAsh == <<287, 376, 338, 8249>>
SymbolSquall == <<287, 376, 338, 172, 239, 184>>
SymbolTornado == <<287, 376, 338, 170, 239, 184>>
SymbolClear == <<226, 732, 8364, 239, 184>>
SymbolCloudy == <<226, 8250, 8230>>
SymbolUnknown == <<287, 376, 338, 710>>
\* the text between the temperature and "C"
DegreeMarker == <<194, 176>>

\* a display_params pair
Params(symbol, color) == [symbol |-> symbol, color |-> color]

_select_weather_display_params(id) ==
    IF id \in THUNDERSTORM THEN Params(SymbolThunderstorm, "RED")
    ELSE IF id \in DRIZZLE THEN Params(SymbolDrizzle, "CYAN")
    ELSE IF id \in RAIN THEN Params(SymbolRain, "BLUE")
    ELSE IF id \in SNOW THEN Params(SymbolSnow, "WHITE")
    ELSE IF id \in MIST THEN Params(SymbolMist, "PALEBLUEHUE")
    ELSE IF id \in SMOKE THEN Params(SymbolSmoke, "ASH")
    ELSE IF id \in HAZE THEN Params(SymbolHaze, "LIGHTBLUE")
    ELSE IF id \in DUSTWHRIL THEN Params(SymbolDustWhirl, "BROWN")
    ELSE IF id \in FOG THEN Params(SymbolFog, "ASH")
    ELSE IF id \in SAND THEN Params(SymbolSand, "YELLOW")
    ELSE IF id \in DUST THEN Params(SymbolDust, "BROWN")
    ELSE IF id \in ASH THEN Params(SymbolAsh, "RED")
    ELSE IF id \in SQUALL THEN Params(SymbolSquall, "BLUE")
    ELSE IF id \in TORNADO THEN Params(SymbolTornado, "WHITE")
    ELSE IF id \in CLEAR THEN Params(SymbolClear, "YELLOW")
    ELSE IF id \in CLOUDY THEN Params(SymbolCloudy, "WHITE")
    ELSE Params(SymbolUnknown, "RESET")

---------------------------------------------------------------------------
(* Formatting *)

\* the description printed as it came
CapitalizeNothing(s) == s

\* str.capitalize on ASCII text: the first character in upper case, every
\* other character in lower case
Capitalize(s) ==
    [i \in 1 .. Len(s) |->
        IF i = 1 THEN (IF s[i] \in 97 .. 122 THEN s[i] - 32 ELSE s[i])
        ELSE (IF s[i] \in 65 .. 90 THEN s[i] + 32 ELSE s[i])]

\* style.PADDING, the width of the city and description fields
PADDING == 20

\* n spaces
Spaces(n) == [i \in 1 .. n |-> 32]

\* format(s, "^width"): s centred, the odd space on the right, never cut
Center(s, width) ==
    IF Len(s) >= width THEN s
    ELSE LET total == width - Len(s)
             left  == total \div 2
         IN  Spaces(left) \o s \o Spaces(total - left)

\* a temperature of the JSON document: an integer (18) or a float with one
\* decimal (18.5), held in tenths of a degree
Temp(float, tenths) == [float |-> float, tenths |-> tenths]

\* format(temperature, ""): str of the int, repr of the float
FormatTemp(t) ==
    LET a    == IF t.tenths < 0 THEN 0 - t.tenths ELSE t.tenths
        sign == IF t.tenths < 0 THEN <<45>> ELSE <<>>
    IN  IF t.float THEN sign \o Decimal(a \div 10) \o <<46>> \o Decimal(a % 10)
        ELSE sign \o Decimal(a \div 10)

---------------------------------------------------------------------------
(* The environment: command lines, secrets.ini, the server's answers *)

\* the weather codes an answer may carry
Codes == (0 - NegCodes) .. MaxCode

\* name, description and temperature of an answer
Samples ==
    { [name |-> Paris,   description |-> clear_sky,  temp |-> Temp(TRUE, 185)],
      [name |-> NewYork, description |-> FEW_clouds, temp |-> Temp(FALSE, -30)] }

\* the parsed document {"name":..,"weather":[{"id":..,"description":..}],
\* "main":{"temp":..}}
WeatherDoc(s, id) ==
    [name    |-> s.name,
     weather |-> <<[id |-> id, description |-> s.description]>>,
     main    |-> [temp |-> s.temp]]

\* a document whose weather list is empty
EmptyListDoc ==
    [name |-> Paris, weather |-> <<>>, main |-> [temp |-> Temp(TRUE, 185)]]

\* a response body: bytes that json.loads accepts (value: what they encode),
\* text that is not JSON, or bytes that are no text in any encoding json.loads
\* detects (b"\xff")
Bodies ==
    {[kind |-> "json", value |-> <<WeatherDoc(s, id)>>] : s \in Samples, id \in Codes}
        \cup {[kind |-> "json", value |-> <<EmptyListDoc>>],
              [kind |-> "malformed", value |-> <<>>],
              [kind |-> "undecodable", value |-> <<>>]}

NoBody == [kind |-> "none", value |-> <<>>]

\* the status codes an HTTPError carries
HTTPErrorCodes == 300 .. 599

\* what request.urlopen does: returns a response, raises HTTPError with a
\* status code, or raises URLError (no connection)
Responses ==
    {[outcome |-> "ok", code |-> 200, body |-> b] : b \in Bodies}
        \cup {[outcome |-> "http_error", code |-> c, body |-> NoBody] : c \in HTTPErrorCodes}
        \cup {[outcome |-> "url_error", code |-> 0, body |-> NoBody]}

\* the command lines of a run: none, help, a city of one or two tokens
Argvs == {<<>>, <<HelpFlag>>, <<Paris, LongHelpFlag>>, <<Paris>>, <<New, York>>}

\* secrets.ini: well formed, absent, without [openweather], without api_key,
\* or not an ini file
Configs == {"ok", "no_file", "no_section", "no_key", "malformed"}

\* the characters of the city names of SpecQuery: a, space, +, %, e-acute
\* (two bytes in UTF-8) and the euro sign (three)
Alphabet == {97, 32, 43, 37, 233, 8364}

Tokens == SeqsUpTo(Alphabet, MaxTokLen)

\* command lines of one or two tokens
QueryArgvs == {<<t>> : t \in Tokens} \cup {<<s, t>> : s, t \in Tokens}

---------------------------------------------------------------------------
(* How a run ends, and writing to the terminal *)

\* sys.exit(message): the message on standard error, exit status 1
SysExit(line) ==
    /\ pc' = "exit"
    /\ stderr' = Append(stderr, line)
    /\ exit_code' = <<1>>

\* an exception nothing catches: the interpreter prints the traceback (its
\* header, its frames, which are left out here, and the exception line) and
\* ends with status 1
Uncaught(exception) ==
    /\ pc' = "exit"
    /\ stderr' = stderr \o <<<<"Traceback (most recent call last):">>, <<exception>>>>
    /\ exit_code' = <<1>>

\* the message of get_weather_data for an HTTPError, without the 404 branch
HttpErrorMessageNo404(code) ==
    IF code = 401 THEN <<"Access denied. Check your API key.">>
    ELSE <<"Something went wrong... (", ToString(code), ")">>

\* the message of get_weather_data for an HTTPError
HttpErrorMessage(code) ==
    IF code = 401 THEN <<"Access denied. Check your API key.">>
    ELSE IF code = 404 THEN <<"Can't find weather data for this city.">>
    ELSE <<"Something went wrong... (", ToString(code), ")">>

\* json.loads(data)
JsonLoads(body) ==
    IF body.kind = "json" THEN [raised |-> "", value |-> body.value]
    ELSE IF body.kind = "malformed" THEN [raised |-> "json.JSONDecodeError", value |-> <<>>]
    ELSE [raised |-> "UnicodeDecodeError", value |-> <<>>]

StyleEvent(color) == [kind |-> "style", style |-> color, text |-> <<>>]
TextEvent(text) == [kind |-> "text", style |-> "", text |-> text]

\* style.change_color(color): the terminal's style becomes color
ChangeColor(color) ==
    /\ term_style' = color
    /\ terminal' = Append(terminal, StyleEvent(color))

\* print(text, end=...)
Emit(text) ==
    /\ terminal' = Append(terminal, TextEvent(text))
    /\ UNCHANGED term_style

Enter(stage) == trace' = Append(trace, stage)

---------------------------------------------------------------------------
(* The script, weather.py:181-185, statement by statement *)

inputs == <<argv, config>>
fetched == <<response, weather_data, requests>>
locals == <<city, weather_id, weather_description, temperature, display_params>>
screen == <<term_style, terminal>>
ending == <<stderr, exit_code>>

\* read_user_cli_args: no token is a usage error (argparse writes the usage
\* line and the error line and ends with status 2), -h or --help prints the
\* help and ends with status 0, otherwise the tokens are the city.  No other
\* token that starts with "-" is drawn.
read_user_cli_args ==
    /\ pc = "read_args"
    /\ Enter("args")
    /\ IF argv = <<>> THEN
           /\ pc' = "exit"
           /\ stderr' = stderr \o <<<<"usage: weather.py [-h] city [city ...]">>,
                  <<"weather.py: error: the following arguments are required: city">>>>
           /\ exit_code' = <<2>>
           /\ UNCHANGED <<user_args, screen>>
       ELSE IF \E i \in 1 .. Len(argv) : argv[i] \in {HelpFlag, LongHelpFlag} THEN
           /\ pc' = "exit"
           /\ exit_code' = <<0>>
           /\ Emit(HelpText)
           /\ UNCHANGED <<user_args, stderr>>
       ELSE
           /\ pc' = "get_api_key"
           /\ user_args' = argv
           /\ UNCHANGED <<screen, ending>>
    /\ UNCHANGED <<inputs, api_key, query_url, fetched, locals>>

\* the lookup failure swallowed: the run goes on without a key
KeyLookupIgnored(exception) ==
    /\ pc' = "build_query"
    /\ UNCHANGED ending

\* config["openweather"]["api_key"] raises and nothing catches it
KeyLookupFails(exception) == Uncaught(exception)

\* _get_api_key, called first in build_weather_query.  config.read skips a
\* file that does not exist and raises on a file that is no ini file.
_get_api_key ==
    /\ pc = "get_api_key"
    /\ Enter("api_key")
    /\ IF config = "ok" THEN
           /\ api_key' = SampleKey
           /\ pc' = "build_query"
           /\ UNCHANGED ending
       ELSE
           /\ KeyLookupFails(
                  IF config = "no_key" THEN "KeyError: 'api_key'"
                  ELSE IF config = "malformed" THEN "configparser.MissingSectionHeaderError"
                  ELSE "KeyError: 'openweather'")
           /\ UNCHANGED api_key
    /\ UNCHANGED <<inputs, user_args, query_url, fetched, locals, screen>>

\* the rest of build_weather_query
build_weather_query ==
    /\ pc = "build_query"
    /\ Enter("url")
    /\ query_url' = BuildUrl(JoinSpace(user_args), api_key)
    /\ pc' = "urlopen"
    /\ UNCHANGED <<inputs, user_args, api_key, fetched, locals, screen, ending>>

\* the request made again after a 503
OnHTTPErrorRetry(code) ==
    IF code = 503 THEN pc' = "urlopen" /\ UNCHANGED ending
    ELSE SysExit(HttpErrorMessage(code))

\* except error.HTTPError
OnHTTPError(code) == SysExit(HttpErrorMessage(code))

\* get_weather_data, the request: request.urlopen(query_url) and the handler
\* of HTTPError; a URLError is not caught
urlopen ==
    /\ pc = "urlopen"
    /\ Enter("get")
    /\ \E r \in Responses :
        /\ response' = <<r>>
        /\ requests' = requests + 1
        /\ IF r.outcome = "http_error" THEN OnHTTPError(r.code)
           ELSE IF r.outcome = "url_error" THEN Uncaught("urllib.error.URLError")
           ELSE pc' = "read_parse" /\ UNCHANGED ending
    /\ UNCHANGED <<inputs, user_args, api_key, query_url, weather_data, locals, screen>>

\* get_weather_data, the body: response.read() and json.loads, whose
\* JSONDecodeError is caught and whose UnicodeDecodeError is not
read_and_parse ==
    /\ pc = "read_parse"
    /\ Enter("json")
    /\ LET r == JsonLoads(response[1].body)
       IN  IF r.raised = "" THEN
               /\ weather_data' = r.value
               /\ pc' = "display"
               /\ UNCHANGED ending
           ELSE IF r.raised = "json.JSONDecodeError" THEN
               /\ SysExit(<<"Couldn't read the server response.">>)
               /\ UNCHANGED weather_data
           ELSE
               /\ Uncaught(r.raised)
               /\ UNCHANGED weather_data
    /\ UNCHANGED <<inputs, user_args, api_key, query_url, response, requests,
                   locals, screen>>

\* display_weather_info, weather.py:114-117
extract ==
    /\ pc = "display"
    /\ Enter("display")
    /\ LET d == weather_data[1]
       IN  IF d.weather = <<>> THEN
               /\ Uncaught("IndexError: list index out of range")
               /\ UNCHANGED <<city, weather_id, weather_description, temperature>>
           ELSE
               /\ city' = d.name
               /\ weather_id' = <<d.weather[1].id>>
               /\ weather_description' = d.weather[1].description
               /\ temperature' = <<d.main.temp>>
               /\ pc' = "color_reverse"
               /\ UNCHANGED ending
    /\ UNCHANGED <<inputs, user_args, api_key, query_url, fetched, display_params, screen>>

\* a statement of display_weather_info that only writes to the terminal
Statement(at, effect, next) ==
    /\ pc = at
    /\ effect
    /\ pc' = next
    /\ UNCHANGED <<inputs, user_args, api_key, query_url, fetched, locals,
                   ending, trace>>

\* weather.py:119
color_reverse == Statement("color_reverse", ChangeColor("REVERSE"), "print_city")

\* weather.py:120
print_city == Statement("print_city", Emit(Center(city, PADDING)), "reset_city")

\* the reset after the city left out
reset_city_skipped == Statement("reset_city", UNCHANGED screen, "select")

\* weather.py:121
reset_city == Statement("reset_city", ChangeColor("RESET"), "select")

\* weather.py:122
select ==
    /\ pc = "select"
    /\ display_params' = <<_select_weather_display_params(weather_id[1])>>
    /\ pc' = "color_weather"
    /\ UNCHANGED <<inputs, user_args, api_key, query_url, fetched, city, weather_id,
                   weather_description, temperature, screen, ending, trace>>

\* weather.py:123
color_weather ==
    Statement("color_weather", ChangeColor(display_params[1].color), "print_symbol")

\* weather.py:125
print_symbol ==
    Statement("print_symbol", Emit(<<9>> \o display_params[1].symbol \o <<32>>),
              "print_description")

\* weather.py:126-128
print_description ==
    Statement("print_description",
              Emit(<<9>> \o Center(Capitalize(weather_description), PADDING) \o <<32>>),
              "reset_weather")

\* weather.py:129
reset_weather == Statement("reset_weather", ChangeColor("RESET"), "print_temperature")

\* weather.py:131, after which the script ends with status 0
print_temperature ==
    /\ pc = "print_temperature"
    /\ Emit(<<40>> \o FormatTemp(temperature[1]) \o DegreeMarker \o <<67, 41>>)
    /\ pc' = "exit"
    /\ exit_code' = <<0>>
    /\ UNCHANGED <<inputs, user_args, api_key, query_url, fetched, locals, stderr, trace>>

display_weather_info ==
    \/ extract \/ color_reverse \/ print_city \/ reset_city \/ select
    \/ color_weather \/ print_symbol \/ print_description \/ reset_weather
    \/ print_temperature

InitRun ==
    /\ pc = "read_args"
    /\ user_args = <<>>
    /\ api_key = <<>>
    /\ query_url = <<>>
    /\ response = <<>>
    /\ weather_data = <<>>
    /\ city = <<>>
    /\ weather_id = <<>>
    /\ weather_description = <<>>
    /\ temperature = <<>>
    /\ display_params = <<>>
    /\ term_style = "RESET"
    /\ terminal = <<>>
    /\ stderr = <<>>
    /\ exit_code = <<>>
    /\ requests = 0
    /\ trace = <<>>

Init == InitRun /\ argv \in Argvs /\ config \in Configs

Next ==
    \/ read_user_cli_args
    \/ _get_api_key
    \/ build_weather_query
    \/ urlopen
    \/ read_and_parse
    \/ display_weather_info

Spec == Init /\ [][Next]_vars

\* the query builder on its own, over city names with characters that need
\* escaping
InitQuery == InitRun /\ argv \in QueryArgvs /\ config = "ok"

NextQuery == read_user_cli_args \/ _get_api_key \/ build_weather_query

SpecQuery == InitQuery /\ [][NextQuery]_vars

---------------------------------------------------------------------------
(* Properties *)

\* the text events of the terminal, concatenated
Printed == Concat([i \in 1 .. Len(terminal) |-> terminal[i].text])

\* the style in force when event i was written: that of the last style change
\* before it, the reset style when there is none
StyleAt(i) ==
    LET changes == {k \in 1 .. (i - 1) : terminal[k].kind = "style"}
    IN  IF changes = {} THEN "RESET"
        ELSE terminal[CHOOSE k \in changes : \A m \in changes : m <= k].style

TextAt == {i \in 1 .. Len(terminal) : terminal[i].kind = "text"}

\* the run printed the help and nothing else
HelpRun == terminal = <<TextEvent(HelpText)>>

Singletons == {701, 711, 721, 731, 741, 751, 761, 762, 771, 781}

Listed == (200 .. 399) \cup (500 .. 699) \cup Singletons \cup (800 .. 899)

\* C1: once a (symbol, color) pair is selected for a weather code, it is the
\* pair of the table row the code belongs to: [200,300) thunderstorm,
\* [300,400) drizzle, [500,600) rain, [600,700) snow, 701 mist, 711 smoke,
\* 721 haze, 731 dust whirls, 741 fog, 751 sand, 761 dust, 762 volcanic ash,
\* 771 squall, 781 tornado, 800 clear, [801,900) cloudy.
C1_TableRows ==
    display_params # <<>> =>
        LET id == weather_id[1]
            p  == display_params[1]
        IN  /\ (id >= 200 /\ id < 300) => p = Params(SymbolThunderstorm, "RED")
            /\ (id >= 300 /\ id < 400) => p = Params(SymbolDrizzle, "CYAN")
            /\ (id >= 500 /\ id < 600) => p = Params(SymbolRain, "BLUE")
            /\ (id >= 600 /\ id < 700) => p = Params(SymbolSnow, "WHITE")
            /\ id = 701 => p = Params(SymbolMist, "PALEBLUEHUE")
            /\ id = 711 => p = Params(SymbolSmoke, "ASH")
            /\ id = 721 => p = Params(SymbolHaze, "LIGHTBLUE")
            /\ id = 731 => p = Params(SymbolDustWhirl, "BROWN")
            /\ id = 741 => p = Params(SymbolFog, "ASH")
            /\ id = 751 => p = Params(SymbolSand, "YELLOW")
            /\ id = 761 => p = Params(SymbolDust, "BROWN")
            /\ id = 762 => p = Params(SymbolAsh, "RED")
            /\ id = 771 => p = Params(SymbolSquall, "BLUE")
            /\ id = 781 => p = Params(SymbolTornado, "WHITE")
            /\ id = 800 => p = Params(SymbolClear, "YELLOW")
            /\ (id >= 801 /\ id < 900) => p = Params(SymbolCloudy, "WHITE")

\* a pair was selected for the first code of the drizzle row
C1_Witness ==
    /\ display_params = <<Params(SymbolDrizzle, "CYAN")>>
    /\ weather_id = <<300>>

\* C2: 800 selects Clear and 801 selects Cloudy; a code in no listed range or
\* singleton selects the fallback pair (rainbow symbol, reset color); and the
\* selection always yields a pair: every statement after it finds one.
C2_BoundariesAndFallback ==
    /\ display_params # <<>> =>
        LET id == weather_id[1]
            p  == display_params[1]
        IN  /\ id = 800 => p = Params(SymbolClear, "YELLOW")
            /\ id = 801 => p = Params(SymbolCloudy, "WHITE")
            /\ id \notin Listed => p = Params(SymbolUnknown, "RESET")
    /\ pc \in {"color_weather", "print_symbol", "print_description",
               "reset_weather", "print_temperature"} => display_params # <<>>
    /\ (pc = "exit" /\ weather_id # <<>>) => display_params # <<>>

\* the fallback pair was selected for code 700
C2_Witness ==
    /\ display_params = <<Params(SymbolUnknown, "RESET")>>
    /\ weather_id = <<700>>

\* C3: when the GET is answered with an error status the process has ended
\* with a non-zero status and one message on standard error: the 401 message,
\* the 404 message, or for any other status a message that embeds the status
\* code; no weather data was returned and nothing was printed.
C3_HttpErrorExit ==
    (response # <<>> /\ response[1].outcome = "http_error") =>
        LET code == response[1].code
        IN  /\ pc = "exit"
            /\ exit_code # <<>> /\ exit_code # <<0>>
            /\ weather_data = <<>>
            /\ terminal = <<>>
            /\ Len(stderr) = 1
            /\ code = 401 => stderr[1] = <<"Access denied. Check your API key.">>
            /\ code = 404 => stderr[1] = <<"Can't find weather data for this city.">>
            /\ code \notin {401, 404} =>
                   /\ \E i \in 1 .. Len(stderr[1]) : stderr[1][i] = ToString(code)
                   /\ stderr[1] # <<"Access denied. Check your API key.">>
                   /\ stderr[1] # <<"Can't find weather data for this city.">>

\* the run ended on a 404
C3_Witness ==
    /\ pc = "exit"
    /\ response # <<>>
    /\ response[1].outcome = "http_error"
    /\ response[1].code = 404

\* C4: once the body of a successful GET has been read and parsed, a body
\* that parses was returned as the parsed structure, and a body that cannot
\* be parsed as JSON ended the process with the one message "Couldn't read
\* the server response." and a non-zero status.
C4_ParseOrMessage ==
    (response # <<>> /\ response[1].outcome = "ok" /\ pc # "read_parse") =>
        LET body == response[1].body
        IN  /\ body.kind = "json" => weather_data = body.value
            /\ body.kind # "json" =>
                   /\ pc = "exit"
                   /\ weather_data = <<>>
                   /\ exit_code # <<>> /\ exit_code # <<0>>
                   /\ stderr = <<<<"Couldn't read the server response.">>>>

\* the errors C5 lists: usage, configuration, HTTP status, transport, body
ListedFailure ==
    \/ argv = <<>>
    \/ (user_args # <<>> /\ config # "ok")
    \/ (response # <<>> /\ response[1].outcome # "ok")
    \/ (response # <<>> /\ response[1].outcome = "ok" /\ response[1].body.kind # "json")

\* the one error of the model that C5 does not list: an empty weather list
UnlistedFailure ==
    /\ weather_data # <<>>
    /\ weather_data[1].weather = <<>>

\* C5: a run that ended on a listed fatal error ended at once with a non-zero
\* status and a single line on standard error (for the usage error: argparse's
\* usage message), after at most one request; a run that hit no error ended
\* with status 0.
C5_FatalErrorsOneLine ==
    pc = "exit" =>
        /\ ListedFailure =>
               /\ exit_code # <<0>>
               /\ stderr # <<>>
               /\ argv # <<>> => Len(stderr) = 1
               /\ requests <= 1
        /\ (~ListedFailure /\ ~UnlistedFailure) => exit_code = <<0>>

\* C6 as stated: every run that has ended made exactly one request.
C6_ExactlyOneRequest == pc = "exit" => requests = 1

\* C6, amended: request.urlopen is never called a second time, and a run that
\* has ended called it exactly once if its arguments were parsed and its key
\* loaded (the URL was built), and not at all otherwise.
C6_AtMostOneRequest ==
    /\ requests <= 1
    /\ pc = "exit" => (requests = 1 <=> query_url # <<>>)
    /\ query_url # <<>> <=> (user_args # <<>> /\ api_key # <<>> /\ pc # "build_query")

\* a run that ended on malformed JSON, with its one request made
C6_Witness ==
    /\ pc = "exit"
    /\ requests = 1
    /\ response # <<>>
    /\ response[1].body.kind = "malformed"

\* the other city names, each with the q parameter of its URL
OtherQueries ==
    {[name |-> n, q |-> QParam(BuildUrl(n, SampleKey))] :
        n \in SeqsUpTo(Alphabet, MaxOtherLen)}

\* C7: decoding the q parameter of the built URL gives back the space-joined
\* city name, and no other city name has the same encoded q parameter (the
\* API key being the same).
C7_RoundTripInjective ==
    query_url # <<>> =>
        LET city_name == JoinSpace(user_args)
        IN  /\ UnquotePlus(QParam(query_url)) = city_name
            /\ \A o \in OtherQueries : o.name # city_name => o.q # QParam(query_url)

\* the URL was built for the two tokens "+" and e-acute
C7_Witness ==
    /\ query_url # <<>>
    /\ user_args = <<<<43>>, <<233>>>>

\* the answer of end-to-end scenario 1
Scenario1 == WeatherDoc([name |-> Paris, description |-> clear_sky,
                         temp |-> Temp(TRUE, 185)], 800)

C9_StyleReset ==
    /\ \A i \in TextAt : \A j \in TextAt :
           (/\ i < j
            /\ \A m \in TextAt : ~(i < m /\ m < j)
            /\ StyleAt(i) # "RESET"
            /\ StyleAt(j) # StyleAt(i))
               => \E k \in (i + 1) .. (j - 1) : terminal[k] = StyleEvent("RESET")
    /\ (display_params # <<>> /\ ~HelpRun) =>
           \A i \in TextAt :
               StyleAt(i) = IF terminal[i].text = Center(city, PADDING) THEN "REVERSE"
                            ELSE IF terminal[i].text[1] = 9 THEN display_params[1].color
                            ELSE "RESET"
    /\ (pc = "exit" /\ display_params # <<>>) => term_style = "RESET"

\* an answer with an unlisted code was displayed to the end
C9_Witness ==
    /\ pc = "exit"
    /\ weather_id = <<999>>
    /\ Len(terminal) = 8
    /\ term_style = "RESET"

Stages == <<"args", "api_key", "url", "get", "json", "display">>

\* C10: the stages are entered in the order argument parsing, API-key load,
\* URL construction, GET, JSON parse, display, each at most once; anything of
\* the weather line is on the terminal only after all six were entered and
\* the five before display succeeded; and a run whose argument parsing or key
\* load failed made no request.
C10_StageOrder ==
    /\ \E n \in 0 .. Len(Stages) : trace = SubSeq(Stages, 1, n)
    /\ (terminal # <<>> /\ ~HelpRun) =>
           /\ trace = Stages
           /\ user_args # <<>> /\ api_key # <<>> /\ query_url # <<>>
           /\ response # <<>> /\ response[1].outcome = "ok"
           /\ weather_data # <<>>
    /\ (argv = <<>> \/ config # "ok") => (requests = 0 /\ response = <<>>)
    /\ (pc = "exit" /\ Len(trace) <= 2) => (requests = 0 /\ exit_code # <<>>)

\* a run went through all six stages and ended
C10_Witness ==
    /\ pc = "exit"
    /\ trace = Stages
    /\ exit_code = <<0>>

====
